---- MODULE Spec2Model ----
(***************************************************************************)
(* Model of src/main.py: the option-symbol decoding and gamma-exposure     *)
(* (GEX) aggregation pipeline that main() runs when "Run Analysis" is      *)
(* pressed.                                                                *)
(*                                                                         *)
(* Conventions of the model                                                *)
(*  - A string is a sequence of one-character strings.                     *)
(*  - Money is exact: GEX is kept in hundredths of a dollar, so the        *)
(*    factor 0.01 of line 75 is the unit and no rounding is modelled; the  *)
(*    scalings / 10**9 and / 10**6 are a change of unit of the same        *)
(*    number.                                                              *)
(*  - A datetime is <<year, month, day, t>>, t = 0 at midnight.            *)
(***************************************************************************)
EXTENDS Integers, Sequences, FiniteSets

(***************************************************************************)
(* Characters and the character classes of the regular expressions.        *)
(***************************************************************************)
DigitChars == <<"0", "1", "2", "3", "4", "5", "6", "7", "8", "9">>

IsDigit(c) == \E i \in 1..10 : DigitChars[i] = c

IsUpper(c) ==
    c \in {"A", "B", "C", "D", "E", "F", "G", "H", "I", "J", "K", "L", "M",
           "N", "O", "P", "Q", "R", "S", "T", "U", "V", "W", "X", "Y", "Z"}

DigitVal(c) == (CHOOSE i \in 1..10 : DigitChars[i] = c) - 1

SetMin(S) == CHOOSE x \in S : \A y \in S : x <= y

\* Length of the maximal run of digits of s that starts at position i.
RECURSIVE DigitRunLen(_, _)
DigitRunLen(s, i) ==
    IF i > Len(s) \/ ~IsDigit(s[i]) THEN 0 ELSE 1 + DigitRunLen(s, i + 1)

\* int() of a string of decimal digits.
RECURSIVE ToInt(_)
ToInt(ds) ==
    IF ds = <<>> THEN 0
    ELSE 10 * ToInt(SubSeq(ds, 1, Len(ds) - 1)) + DigitVal(ds[Len(ds)])

(***************************************************************************)
(* str.extract: the first capture group of the leftmost match, or a        *)
(* missing value when the pattern matches nowhere.  Every group below is   *)
(* non-empty when it matches, so the empty string stands for no match.     *)
(***************************************************************************)
NoMatch == <<>>

\* r"\d([A-Z])\d"
ExtractType(s) ==
    LET M == {i \in 1..(Len(s) - 2) :
                 IsDigit(s[i]) /\ IsUpper(s[i + 1]) /\ IsDigit(s[i + 2])}
    IN  IF M = {} THEN NoMatch ELSE <<s[SetMin(M) + 1]>>

\* r"\d[A-Z](\d+)\d\d\d": the greedy group gives back three digits.
ExtractStrike(s) ==
    LET M == {i \in 1..(Len(s) - 5) :
                 IsDigit(s[i]) /\ IsUpper(s[i + 1])
                 /\ DigitRunLen(s, i + 2) >= 4}
    IN  IF M = {} THEN NoMatch
        ELSE LET i == SetMin(M)
             IN  SubSeq(s, i + 2, i + 1 + DigitRunLen(s, i + 2) - 3)

\* r"[A-Z](\d+)"
ExtractExpiration(s) ==
    LET M == {i \in 1..(Len(s) - 1) : IsUpper(s[i]) /\ IsDigit(s[i + 1])}
    IN  IF M = {} THEN NoMatch
        ELSE LET i == SetMin(M)
             IN  SubSeq(s, i + 1, i + DigitRunLen(s, i + 1))

(***************************************************************************)
(* pd.to_datetime(..., format="%y%m%d") on one string of digits.           *)
(* %y is \d\d, %m is 1[0-2]|0[1-9]|[1-9], %d is 3[0-1]|[1-2]\d|0[1-9]|[1-9]*)
(* matched from the start with backtracking; a match that does not end at  *)
(* the end of the string, or a day the month does not have, raises.        *)
(***************************************************************************)
NaT == <<>>
BadDate == <<0>>

IsLeap(y) == (y % 4 = 0 /\ y % 100 # 0) \/ y % 400 = 0

DaysInMonth(y, m) ==
    IF m = 2 THEN (IF IsLeap(y) THEN 29 ELSE 28)
    ELSE IF m \in {4, 6, 9, 11} THEN 30 ELSE 31

\* Ways the month field can match at position p, in the regex's order.
MonthLens(s, p) ==
    (IF p + 1 <= Len(s)
        /\ (   (s[p] = "1" /\ s[p + 1] \in {"0", "1", "2"})
            \/ (s[p] = "0" /\ IsDigit(s[p + 1]) /\ s[p + 1] # "0"))
     THEN <<2>> ELSE <<>>)
    \o (IF p <= Len(s) /\ IsDigit(s[p]) /\ s[p] # "0" THEN <<1>> ELSE <<>>)

\* Ways the day field can match at position p, in the regex's order.
DayLens(s, p) ==
    (IF p + 1 <= Len(s)
        /\ (   (s[p] = "3" /\ s[p + 1] \in {"0", "1"})
            \/ (s[p] \in {"1", "2"} /\ IsDigit(s[p + 1]))
            \/ (s[p] = "0" /\ IsDigit(s[p + 1]) /\ s[p + 1] # "0"))
     THEN <<2>> ELSE <<>>)
    \o (IF p <= Len(s) /\ IsDigit(s[p]) /\ s[p] # "0" THEN <<1>> ELSE <<>>)

to_datetime(s) ==
    IF s = <<"n", "a", "n">> THEN NaT
    ELSE IF Len(s) < 2 \/ ~IsDigit(s[1]) \/ ~IsDigit(s[2]) THEN BadDate
    ELSE
      LET ms   == MonthLens(s, 3)
          \* the first month alternative after which a day matches
          good == {k \in 1..Len(ms) : DayLens(s, 3 + ms[k]) # <<>>}
      IN  IF good = {} THEN BadDate
          ELSE
            LET ml == ms[SetMin(good)]
                dl == DayLens(s, 3 + ml)[1]
                yy == ToInt(SubSeq(s, 1, 2))
                y  == IF yy <= 68 THEN 2000 + yy ELSE 1900 + yy
                m  == ToInt(SubSeq(s, 3, 2 + ml))
                d  == ToInt(SubSeq(s, 3 + ml, 2 + ml + dl))
            IN  IF 2 + ml + dl # Len(s) THEN BadDate
                ELSE IF d > DaysInMonth(y, m) THEN BadDate
                ELSE <<y, m, d, 0>>

\* Datetime comparison; a comparison with NaT is false.
DtLess(a, b) ==
    /\ a # NaT
    /\ b # NaT
    /\ \E k \in 1..4 : a[k] < b[k] /\ \A j \in 1..(k - 1) : a[j] = b[j]

Pad2(n) == <<DigitChars[(n \div 10) + 1], DigitChars[(n % 10) + 1]>>

\* .dt.strftime("%Y-%m-%d")
strftime(dt) ==
    Pad2(dt[1] \div 100) \o Pad2(dt[1] % 100) \o <<"-">> \o Pad2(dt[2])
    \o <<"-">> \o Pad2(dt[3])

\* Code point order of the characters a formatted date contains.
Ord(c) == IF c = "-" THEN 45 ELSE 48 + DigitVal(c)

\* Python's str < str.
StrLess(a, b) ==
    \/ \E k \in 1..Len(a) :
          /\ k <= Len(b)
          /\ Ord(a[k]) < Ord(b[k])
          /\ \A j \in 1..(k - 1) : a[j] = b[j]
    \/ Len(a) < Len(b) /\ \A j \in 1..Len(a) : a[j] = b[j]

\* sorted(S) for a set of strings.
RECURSIVE SortedStr(_)
SortedStr(S) ==
    IF S = {} THEN <<>>
    ELSE LET m == CHOOSE x \in S : \A y \in S \ {x} : StrLess(x, y)
         IN  <<m>> \o SortedStr(S \ {m})

\* sorted(S) for a set of integers.
RECURSIVE SortedInt(_)
SortedInt(S) ==
    IF S = {} THEN <<>>
    ELSE <<SetMin(S)>> \o SortedInt(S \ {SetMin(S)})

Reverse(q) == [i \in 1..Len(q) |-> q[Len(q) + 1 - i]]

(***************************************************************************)
(* The feed: what the requests of scrape_data can return.                  *)
(***************************************************************************)
MaxBatch == 2
MaxOI    == 1

\* gamma enters GEX as a factor exactly as open interest does; the feed of
\* the model varies the open interest.
Gammas == {1}

\* Decimal digits of a natural number, without padding.
RECURSIVE Dec(_)
Dec(n) == IF n < 10 THEN <<DigitChars[n + 1]>>
          ELSE Dec(n \div 10) \o <<DigitChars[(n % 10) + 1]>>

\* <root><YYMMDD><type letter><strike digits><3-digit fractional suffix>
Build(p) ==
    p.root \o Pad2(p.date[1] % 100) \o Pad2(p.date[2]) \o Pad2(p.date[3])
    \o <<p.type>> \o Dec(p.strike) \o p.suffix

Near == <<2024, 1, 19, 0>>
Far  == <<2025, 6, 20, 0>>

Spots == {20}

Param(r, d, t, k, f) ==
    [root |-> r, date |-> d, type |-> t, strike |-> k, suffix |-> f]

\* Identifiers with a root of letters only and type C or P.
PlainParams ==
    { Param(<<"S">>, Near, "C", 20, <<"0", "0", "0">>),
      Param(<<"S">>, Near, "P", 17, <<"0", "0", "0">>),
      Param(<<"S">>, Far,  "C", 23, <<"0", "0", "0">>),
      Param(<<"S">>, Far,  "P", 20, <<"5", "0", "0">>),
      Param(<<"S">>, Far,  "C", 18, <<"0", "0", "0">>) }

\* A type letter that is neither C nor P.
OtherTypeParams == { Param(<<"S">>, Near, "X", 20, <<"0", "0", "0">>) }

\* Roots that contain a digit.
DigitRootParams ==
    { Param(<<"S", "1">>, Near, "C", 20, <<"0", "0", "0">>),
      Param(<<"1", "A">>, Near, "P", 20, <<"0", "0", "0">>) }

BuildParams == PlainParams \cup OtherTypeParams \cup DigitRootParams

\* Identifiers that are not of the format.
Malformed ==
    { <<"S", "P", "Y">>,
      <<"S", "2", "4", "0", "1", "1", "9">>,
      <<"S", "2", "4", "0", "1", "1", "9", "C", "0", "2", "0">> }

Identifiers == { Build(p) : p \in BuildParams } \cup Malformed

RawContract ==
    [option : Identifiers, gamma : Gammas, open_interest : 0..MaxOI]

RECURSIVE SeqsUpTo(_, _)
SeqsUpTo(S, n) ==
    IF n = 0 THEN {<<>>}
    ELSE LET shorter == SeqsUpTo(S, n - 1)
         IN  shorter \cup {Append(q, x) : q \in {r \in shorter : Len(r) = n - 1},
                                          x \in S}

Batches == SeqsUpTo(RawContract, MaxBatch)

\* The horizon datetime.today() + timedelta(days=365) of a view.
SelectedDates == { <<2025, 6, 20, 0>>, <<2025, 6, 20, 1>> }

\* An entry of the response: the key is absent, null, or has a value.
Absent      == [key |-> "absent", value |-> <<>>]
Null        == [key |-> "null", value |-> <<>>]
Present(v)  == [key |-> "present", value |-> <<v>>]

Responses ==
    [json : {"first"},
     current_price : {Present(v) : v \in Spots},
     options : {Present(b) : b \in Batches}]
    \cup
    [json : {"first", "second"},
     current_price : {Absent, Null} \cup {Present(v) : v \in Spots},
     options : {Absent, Null} \cup {Present(b) : b \in SeqsUpTo(RawContract, 1)}]
    \cup
    [json : {"error"}, current_price : {Absent}, options : {Absent}]

(***************************************************************************)
(* State of one analysis run started by main().                            *)
(***************************************************************************)
VARIABLES
    response,           \* what the feed answers for the ticker
    pc,                 \* the statement of main() that runs next
    spot_price,         \* main's spot_price; <<>> is None
    option_data,        \* main's option_data: the shared contract table
    gex_by_strike,      \* compute_gex_by_strike: the grouping of line 85
    limited_gex,        \* compute_gex_by_strike: the filtered grouping
    gex_by_expiration,  \* compute_gex_by_expiration: the grouping
    grouped_data,       \* print_gex_surface: the joint grouping
    surface,            \* print_gex_surface: z, x and y given to go.Surface
    selected_date,      \* the horizon each view computed
    rendered,           \* the charts st.plotly_chart has shown, in order
    message,            \* the texts st.error has shown, in order
    raised_in           \* the function an escaping exception came from

vars == <<response, pc, spot_price, option_data, gex_by_strike, limited_gex,
          gex_by_expiration, grouped_data, surface, selected_date, rendered,
          message, raised_in>>

NoSurface == [z |-> <<>>, x |-> <<>>, y |-> <<>>]

Init ==
    /\ response \in Responses
    /\ pc = "scrape_data"
    /\ spot_price = <<>>
    /\ option_data = <<>>
    /\ gex_by_strike = <<>>
    /\ limited_gex = <<>>
    /\ gex_by_expiration = <<>>
    /\ grouped_data = {}
    /\ surface = NoSurface
    /\ selected_date = [expiration |-> NaT, surface |-> NaT]
    /\ rendered = <<>>
    /\ message = <<>>
    /\ raised_in = "none"

(***************************************************************************)
(* fix_option_data (lines 58-69).                                          *)
(***************************************************************************)
\* .astype(str): a missing value becomes the text "nan".
astype_str(x) == IF x = NoMatch THEN <<"n", "a", "n">> ELSE x

\* The missing value of a numeric column.
NaN == 0 - 1

\* One row with the three derived columns.
Decoded(r) ==
    [option        |-> r.option,
     gamma         |-> r.gamma,
     open_interest |-> r.open_interest,
     type          |-> ExtractType(r.option),
     strike        |-> IF ExtractStrike(r.option) = NoMatch THEN NaN
                       ELSE ToInt(ExtractStrike(r.option)),
     expiration    |-> to_datetime(astype_str(ExtractExpiration(r.option)))]

\* A variant in which a missing strike is carried as a missing value.
fix_option_data_coerce(data) ==
    IF data = <<>> THEN [raised |-> TRUE, data |-> <<>>]
    ELSE IF \E i \in 1..Len(data) : Decoded(data[i]).expiration = BadDate
         THEN [raised |-> TRUE, data |-> <<>>]
    ELSE [raised |-> FALSE, data |-> [i \in 1..Len(data) |-> Decoded(data[i])]]

\* The frame without rows has no column "option" (line 64); .astype(int)
\* raises on a missing value (line 65); to_datetime raises on text that is
\* not of the format (line 68).
fix_option_data(data) ==
    IF data = <<>> THEN [raised |-> TRUE, data |-> <<>>]
    ELSE IF \E i \in 1..Len(data) : ExtractStrike(data[i].option) = NoMatch
         THEN [raised |-> TRUE, data |-> <<>>]
    ELSE IF \E i \in 1..Len(data) : Decoded(data[i]).expiration = BadDate
         THEN [raised |-> TRUE, data |-> <<>>]
    ELSE [raised |-> FALSE, data |-> [i \in 1..Len(data) |-> Decoded(data[i])]]

\* pd.DataFrame(data.loc["options", "data"]): null gives the empty frame.
OptionRows(resp) ==
    IF resp.options.key = "present" THEN resp.options.value[1] ELSE <<>>

(***************************************************************************)
(* scrape_data (lines 39-55), called on line 251.                          *)
(***************************************************************************)
Raise(fn) ==
    /\ pc' = "raised"
    /\ raised_in' = fn

scrape_data ==
    /\ pc = "scrape_data"
    /\ IF response.json = "error"
          \/ response.current_price.key = "absent"
          \/ response.options.key = "absent"
       THEN /\ Raise("scrape_data")
            /\ UNCHANGED <<spot_price, option_data>>
       ELSE LET fixed == fix_option_data(OptionRows(response))
            IN  IF fixed.raised
                THEN /\ Raise("fix_option_data")
                     /\ UNCHANGED <<spot_price, option_data>>
                ELSE /\ spot_price' = response.current_price.value
                     /\ option_data' = fixed.data
                     /\ pc' = "check"
                     /\ UNCHANGED raised_in
    /\ UNCHANGED <<response, gex_by_strike, limited_gex, gex_by_expiration,
                   grouped_data, surface, selected_date, rendered, message>>

(***************************************************************************)
(* main, lines 252 and 257-258.  fix_option_data never returns None, so    *)
(* the test reduces to the spot price.                                     *)
(***************************************************************************)
main_check ==
    /\ pc = "check"
    /\ IF spot_price # <<>>
       THEN /\ pc' = "compute_total_gex"
            /\ UNCHANGED message
       ELSE /\ message' = Append(message, "Data retrieval was unsuccessful.")
            /\ pc' = "done"
    /\ UNCHANGED <<response, spot_price, option_data, gex_by_strike,
                   limited_gex, gex_by_expiration, grouped_data, surface,
                   selected_date, rendered, raised_in>>

(***************************************************************************)
(* compute_total_gex (lines 72-79).  The printed total is not state.       *)
(***************************************************************************)
contract_size == 100

\* Line 75, in hundredths of a dollar, then the sign of line 78.
GEX(spot, r) ==
    LET g == spot * r.gamma * r.open_interest * contract_size * spot
    IN  IF r.type = <<"P">> THEN 0 - g ELSE g

WithGEX(spot, r) ==
    [option        |-> r.option,
     gamma         |-> r.gamma,
     open_interest |-> r.open_interest,
     type          |-> r.type,
     strike        |-> r.strike,
     expiration    |-> r.expiration,
     GEX           |-> GEX(spot, r)]

compute_total_gex ==
    /\ pc = "compute_total_gex"
    /\ option_data' = [i \in 1..Len(option_data) |->
                          WithGEX(spot_price[1], option_data[i])]
    /\ pc' = "compute_gex_by_strike"
    /\ UNCHANGED <<response, spot_price, gex_by_strike, limited_gex,
                   gex_by_expiration, grouped_data, surface, selected_date,
                   rendered, message, raised_in>>

(***************************************************************************)
(* Grouping: groupby(key)["GEX"].sum().  A row whose key is missing is in  *)
(* no group.                                                               *)
(***************************************************************************)
\* data.GEX.sum()
RECURSIVE SumGEX(_)
SumGEX(rows) ==
    IF rows = <<>> THEN 0 ELSE rows[1].GEX + SumGEX(Tail(rows))

StrikesOf(data) == {data[i].strike : i \in 1..Len(data)} \ {NaN}

ExpirationsOf(data) == {data[i].expiration : i \in 1..Len(data)} \ {NaT}

PairsOf(data) ==
    {<<data[i].expiration, data[i].strike>> : i \in 1..Len(data)}
    \cap (ExpirationsOf(data) \X StrikesOf(data))

\* A grouping that keeps the first value of each group instead of the sum.
GroupByStrikeFirst(data) ==
    [k \in StrikesOf(data) |->
        SelectSeq(data, LAMBDA r : r.strike = k)[1].GEX]

\* data.groupby("strike")["GEX"].sum()
GroupByStrike(data) ==
    [k \in StrikesOf(data) |->
        SumGEX(SelectSeq(data, LAMBDA r : r.strike = k))]

\* data.groupby("expiration")["GEX"].sum()
GroupByExpiration(data) ==
    [e \in ExpirationsOf(data) |->
        SumGEX(SelectSeq(data, LAMBDA r : r.expiration = e))]

\* data.groupby(["expiration", "strike"])["GEX"].sum()
GroupByPair(data) ==
    [p \in PairsOf(data) |->
        SumGEX(SelectSeq(data,
                         LAMBDA r : r.expiration = p[1] /\ r.strike = p[2]))]

(***************************************************************************)
(* compute_gex_by_strike (lines 82-123).                                   *)
(***************************************************************************)
\* The band with both bounds included.
InBandInclusive(strike, spot) ==
    /\ strike * 100 >= spot * 85
    /\ strike * 100 <= spot * 115

\* (strike > spot * 0.85) & (strike < spot * 1.15)
InBand(strike, spot) ==
    /\ strike * 100 > spot * 85
    /\ strike * 100 < spot * 115

\* Series[mask]
Restrict(f, S) == [k \in S |-> f[k]]

compute_gex_by_strike ==
    /\ pc = "compute_gex_by_strike"
    /\ LET by_strike == GroupByStrike(option_data)
       IN  /\ gex_by_strike' = by_strike
           /\ limited_gex' =
                 Restrict(by_strike,
                          {k \in DOMAIN by_strike : InBand(k, spot_price[1])})
    /\ rendered' = Append(rendered, "strike")
    /\ pc' = "compute_gex_by_expiration"
    /\ UNCHANGED <<response, spot_price, option_data, gex_by_expiration,
                   grouped_data, surface, selected_date, message, raised_in>>

(***************************************************************************)
(* compute_gex_by_expiration (lines 126-167).                              *)
(***************************************************************************)
\* A variant that filters the caller's table in place.
compute_gex_by_expiration_inplace ==
    /\ pc = "compute_gex_by_expiration"
    /\ \E sel \in SelectedDates :
          LET data == SelectSeq(option_data,
                                LAMBDA r : DtLess(r.expiration, sel))
          IN  /\ option_data' = data
              /\ gex_by_expiration' = GroupByExpiration(data)
              /\ selected_date' = [selected_date EXCEPT !.expiration = sel]
    /\ rendered' = Append(rendered, "expiration")
    /\ pc' = "print_gex_surface"
    /\ UNCHANGED <<response, spot_price, gex_by_strike, limited_gex,
                   grouped_data, surface, message, raised_in>>

compute_gex_by_expiration ==
    /\ pc = "compute_gex_by_expiration"
    /\ \E sel \in SelectedDates :
          LET data == SelectSeq(option_data,
                                LAMBDA r : DtLess(r.expiration, sel))
          IN  /\ gex_by_expiration' = GroupByExpiration(data)
              /\ selected_date' = [selected_date EXCEPT !.expiration = sel]
    /\ rendered' = Append(rendered, "expiration")
    /\ pc' = "print_gex_surface"
    /\ UNCHANGED <<response, spot_price, option_data, gex_by_strike,
                   limited_gex, grouped_data, surface, message, raised_in>>

(***************************************************************************)
(* print_gex_surface (lines 170-241).                                      *)
(***************************************************************************)
\* Lines 174-179.
SurfaceFilter(data, spot, sel) ==
    SelectSeq(data, LAMBDA r : /\ DtLess(r.expiration, sel)
                               /\ InBand(r.strike, spot))

\* Lines 182-186: one row per group, the expiration formatted as text.
GroupedRows(limited_data) ==
    LET grouped == GroupByPair(limited_data)
    IN  {[expiration |-> strftime(p[1]), strike |-> p[2], GEX |-> grouped[p]] :
            p \in DOMAIN grouped}

\* Line 190-192.
XUnique(rows) == Reverse(SortedStr({r.expiration : r \in rows}))

\* Line 193.
YUnique(rows) == SortedInt({r.strike : r \in rows})

\* pivot raises when two rows have the same index and column.
PivotRaises(rows) ==
    \E a \in rows, b \in rows :
        a # b /\ a.strike = b.strike /\ a.expiration = b.expiration

\* Lines 194-198: pivot sorts the index and the columns in ascending order.
PivotValues(rows) ==
    LET index   == SortedInt({r.strike : r \in rows})
        columns == SortedStr({r.expiration : r \in rows})
        Cell(k, e) ==
            LET hit == {r \in rows : r.strike = k /\ r.expiration = e}
            IN  IF hit = {} THEN 0 ELSE (CHOOSE r \in hit : TRUE).GEX
    IN  [i \in 1..Len(index) |->
            [j \in 1..Len(columns) |-> Cell(index[i], columns[j])]]

print_gex_surface ==
    /\ pc = "print_gex_surface"
    /\ \E sel \in SelectedDates :
          LET rows == GroupedRows(SurfaceFilter(option_data, spot_price[1], sel))
              z    == PivotValues(rows)
          IN  /\ selected_date' = [selected_date EXCEPT !.surface = sel]
              /\ grouped_data' = rows
              \* z.min() on line 207 raises on an array without elements
              /\ IF PivotRaises(rows) \/ z = <<>>
                 THEN /\ Raise("print_gex_surface")
                      /\ UNCHANGED <<surface, rendered>>
                 ELSE /\ surface' = [z |-> z, x |-> XUnique(rows),
                                     y |-> YUnique(rows)]
                      /\ rendered' = Append(rendered, "surface")
                      /\ pc' = "done"
                      /\ UNCHANGED raised_in
    /\ UNCHANGED <<response, spot_price, option_data, gex_by_strike,
                   limited_gex, gex_by_expiration, message>>

Next ==
    \/ scrape_data
    \/ main_check
    \/ compute_total_gex
    \/ compute_gex_by_strike
    \/ compute_gex_by_expiration
    \/ print_gex_surface

Spec == Init /\ [][Next]_vars

(***************************************************************************)
(* Vocabulary of the properties.                                           *)
(***************************************************************************)
Batch == OptionRows(response)

AllMatch(s) ==
    /\ ExtractType(s) # NoMatch
    /\ ExtractStrike(s) # NoMatch
    /\ ExtractExpiration(s) # NoMatch

\* compute_total_gex has set the column GEX.
HasGEX ==
    \/ pc \in {"compute_gex_by_strike", "compute_gex_by_expiration",
               "print_gex_surface"}
    \/ pc = "done" /\ message = <<>>
    \/ raised_in = "print_gex_surface"

StrikeViewDone ==
    HasGEX /\ pc # "compute_gex_by_strike"

ExpirationViewDone == selected_date.expiration # NaT

SurfaceViewDone == selected_date.surface # NaT

RECURSIVE SumValues(_)
SumValues(f) ==
    IF DOMAIN f = {} THEN 0
    ELSE LET k == CHOOSE x \in DOMAIN f : TRUE
         IN  f[k] + SumValues([x \in DOMAIN f \ {k} |-> f[x]])

RECURSIVE SumRows(_)
SumRows(rows) ==
    IF rows = {} THEN 0
    ELSE LET r == CHOOSE x \in rows : TRUE
         IN  r.GEX + SumRows(rows \ {r})

\* The records that pass the joint filter of the surface view.
Surviving == SurfaceFilter(option_data, spot_price[1], selected_date.surface)

(***************************************************************************)
(* C1.  Surface grid cells match their axis labels: z has one row per      *)
(* entry of y_unique and one column per entry of x_unique, and z[i][j] is  *)
(* the summed GEX of the filtered records with strike y_unique[i] and      *)
(* expiration x_unique[j], 0 when there is none.                           *)
(***************************************************************************)
C1_SurfaceCellsMatchLabels ==
    (pc = "done" /\ surface # NoSurface) =>
        /\ Len(surface.z) = Len(surface.y)
        /\ \A i \in 1..Len(surface.z) :
              /\ Len(surface.z[i]) = Len(surface.x)
              /\ \A j \in 1..Len(surface.x) :
                    surface.z[i][j] =
                       SumGEX(SelectSeq(Surviving,
                           LAMBDA r : /\ r.strike = surface.y[i]
                                      /\ strftime(r.expiration) = surface.x[j]))

(***************************************************************************)
(* C2.  Decoding is atomic over the batch: when an identifier of the batch *)
(* fails one of the three patterns, scrape_data ends in an exception and   *)
(* no table reaches main; a table that reaches main has, in every row, an  *)
(* identifier that matches all three patterns and a type, a strike and an  *)
(* expiration that are not missing.                                        *)
(***************************************************************************)
C2_DecodeAtomic ==
    /\ \A i \in 1..Len(option_data) :
          /\ AllMatch(option_data[i].option)
          /\ option_data[i].type # NoMatch
          /\ option_data[i].strike # NaN
          /\ option_data[i].expiration \notin {NaT, BadDate}
    /\ (pc # "scrape_data"
        /\ \E i \in 1..Len(Batch) : ~AllMatch(Batch[i].option)) =>
          /\ pc = "raised"
          /\ raised_in \in {"scrape_data", "fix_option_data"}
          /\ option_data = <<>>
          /\ rendered = <<>>

C2_Witness ==
    /\ pc = "raised"
    /\ raised_in = "fix_option_data"
    /\ \E i, j \in 1..Len(Batch) :
          /\ AllMatch(Batch[i].option)
          /\ ExtractType(Batch[j].option) # NoMatch
          /\ ExtractExpiration(Batch[j].option) # NoMatch
          /\ ExtractStrike(Batch[j].option) = NoMatch

(***************************************************************************)
(* C3.  Decode round-trip: when every identifier of the batch is built as  *)
(* <root><YYMMDD><C|P><strike digits><3-digit suffix>, fix_option_data     *)
(* returns a table whose rows carry exactly the type, the strike and the   *)
(* expiration the identifier was built from, whatever the root is.         *)
(***************************************************************************)
C3_DecodeRoundTrip ==
    (/\ pc # "scrape_data"
     /\ response.json # "error"
     /\ response.current_price.key # "absent"
     /\ Batch # <<>>
     /\ \A i \in 1..Len(Batch) :
           \E p \in BuildParams : p.type \in {"C", "P"}
                                  /\ Build(p) = Batch[i].option) =>
        /\ raised_in # "fix_option_data"
        /\ \A i \in 1..Len(Batch) :
              \A p \in BuildParams :
                 Build(p) = Batch[i].option =>
                    /\ option_data[i].type = <<p.type>>
                    /\ option_data[i].strike = p.strike
                    /\ option_data[i].expiration = p.date

(***************************************************************************)
(* C4.  Sign convention: after compute_total_gex, with spot > 0 and gamma  *)
(* and open interest non-negative, every Call has GEX >= 0 and every Put   *)
(* has GEX <= 0, so do their sums, and only a contract whose decoded type  *)
(* is Call has a positive GEX.                                             *)
(***************************************************************************)
C4_SignConvention ==
    HasGEX =>
        /\ \A i \in 1..Len(option_data) :
              /\ option_data[i].type = <<"C">> => option_data[i].GEX >= 0
              /\ option_data[i].type = <<"P">> => option_data[i].GEX <= 0
              /\ option_data[i].GEX > 0 => option_data[i].type = <<"C">>
        /\ SumGEX(SelectSeq(option_data, LAMBDA r : r.type = <<"C">>)) >= 0
        /\ SumGEX(SelectSeq(option_data, LAMBDA r : r.type = <<"P">>)) <= 0

(***************************************************************************)
(* C5.  Grouping conservation: for each of the three groupings, the group  *)
(* values of the table before any display filter add up to the sum of GEX  *)
(* over the whole table; the groupings the views compute are those         *)
(* groupings restricted to the keys that pass the view's filter, and their *)
(* values add up to the sum of GEX over the records that pass it.          *)
(***************************************************************************)
C5_GroupingConservation ==
    HasGEX =>
        /\ SumValues(GroupByStrike(option_data)) = SumGEX(option_data)
        /\ SumValues(GroupByExpiration(option_data)) = SumGEX(option_data)
        /\ SumValues(GroupByPair(option_data)) = SumGEX(option_data)
        /\ StrikeViewDone =>
              SumValues(gex_by_strike) = SumGEX(option_data)
        /\ ExpirationViewDone =>
              LET all == GroupByExpiration(option_data)
                  kept == {e \in DOMAIN all :
                              DtLess(e, selected_date.expiration)}
              IN  /\ gex_by_expiration = Restrict(all, kept)
                  /\ SumValues(gex_by_expiration) =
                        SumGEX(SelectSeq(option_data,
                            LAMBDA r : DtLess(r.expiration,
                                              selected_date.expiration)))
        /\ SurfaceViewDone =>
              /\ SumRows(grouped_data) = SumGEX(Surviving)
              /\ \A r \in grouped_data :
                    \E p \in PairsOf(option_data) :
                       /\ strftime(p[1]) = r.expiration
                       /\ p[2] = r.strike
                       /\ GroupByPair(option_data)[p] = r.GEX

C5_Witness ==
    /\ pc = "done"
    /\ surface # NoSurface
    /\ Len(option_data) = 2
    /\ option_data[1].strike = option_data[2].strike
    /\ option_data[1].expiration # option_data[2].expiration
    /\ option_data[1].GEX # 0
    /\ option_data[2].GEX # 0
    /\ Cardinality(DOMAIN gex_by_expiration) = 1

(***************************************************************************)
(* C6.  An empty surface is a valid result: when no contract survives the  *)
(* joint filter, print_gex_surface completes with an empty grid and empty  *)
(* axis vectors and raises nothing.                                        *)
(***************************************************************************)
C6_EmptySurfaceCompletes ==
    (SurfaceViewDone /\ Surviving = <<>>) =>
        /\ pc = "done"
        /\ raised_in = "none"
        /\ surface = NoSurface
        /\ rendered = <<"strike", "expiration", "surface">>

(***************************************************************************)
(* C7.  Feed unavailability is reported: when the response lacks the spot  *)
(* price or the contract list, the run ends with the message "Data         *)
(* retrieval was unsuccessful.", no exception escapes main and no view is  *)
(* rendered.                                                               *)
(***************************************************************************)
C7_FeedUnavailableReported ==
    (/\ pc # "scrape_data"
     /\ \/ response.current_price.key # "present"
        \/ response.options.key # "present") =>
        /\ raised_in = "none"
        /\ rendered = <<>>
        /\ pc \in {"check", "done"}
        /\ pc = "done" => message = <<"Data retrieval was unsuccessful.">>

(***************************************************************************)
(* C8.  Strike band filter: the by-strike view keeps a strike of the table *)
(* exactly when 0.85*S < strike < 1.15*S, a strike equal to either bound   *)
(* is dropped, and no expiration condition applies; the surface view keeps *)
(* a strike exactly when a record with that strike is inside the band and  *)
(* expires before the horizon.                                             *)
(***************************************************************************)
C8_StrikeBand ==
    LET S == spot_price[1]
        Inside(k) == 17 * S < 20 * k /\ 20 * k < 23 * S
        OnBound(k) == 20 * k = 17 * S \/ 20 * k = 23 * S
    IN
    /\ StrikeViewDone =>
          \A i \in 1..Len(option_data) :
             LET k == option_data[i].strike
             IN  /\ k \in DOMAIN limited_gex <=> Inside(k)
                 /\ OnBound(k) => k \notin DOMAIN limited_gex
    /\ SurfaceViewDone =>
          /\ \A i \in 1..Len(option_data) :
                LET r == option_data[i]
                IN  (Inside(r.strike)
                     /\ DtLess(r.expiration, selected_date.surface))
                    => \E g \in grouped_data :
                          /\ g.strike = r.strike
                          /\ g.expiration = strftime(r.expiration)
          /\ \A g \in grouped_data :
                /\ Inside(g.strike)
                /\ ~OnBound(g.strike)
                /\ \E i \in 1..Len(option_data) :
                      /\ option_data[i].strike = g.strike
                      /\ strftime(option_data[i].expiration) = g.expiration
                      /\ DtLess(option_data[i].expiration,
                                selected_date.surface)

C8_Witness ==
    /\ SurfaceViewDone
    /\ \E i, j \in 1..Len(option_data) :
          /\ 20 * option_data[i].strike = 23 * spot_price[1]
          /\ option_data[j].strike \in DOMAIN limited_gex
          /\ ~DtLess(option_data[j].expiration, selected_date.surface)
          /\ grouped_data = {}

(***************************************************************************)
(* C9.  No partial output on failure: in a run in which a stage fails, no  *)
(* view has been rendered.                                                 *)
(***************************************************************************)
C9_NoPartialOutput ==
    pc = "raised" => rendered = <<>>

(***************************************************************************)
(* C10. The three views are computed from the same contract table: once    *)
(* compute_total_gex has set GEX, no step of compute_gex_by_strike,        *)
(* compute_gex_by_expiration or print_gex_surface changes the table.       *)
(***************************************************************************)
C10_ViewsLeaveTableUnchanged ==
    [][HasGEX => option_data' = option_data]_vars

C10_Witness ==
    /\ pc = "done"
    /\ surface # NoSurface
    /\ Len(option_data) = 2
    /\ \E i \in 1..2 :
          ~DtLess(option_data[i].expiration, selected_date.expiration)
    /\ \E i \in 1..2 :
          ~InBand(option_data[i].strike, spot_price[1])
====
